---------------------------- MODULE Spec2Model ----------------------------
(***************************************************************************)
(* Flight Booker API (src/main.py, src/schemas.py): the search, booking,   *)
(* listing and status handlers as a state machine.                         *)
(*                                                                         *)
(* Text is modelled as a sequence of one-character strings, so that        *)
(* len(), str.upper(), date parsing and isoformat() are computed the way   *)
(* the code computes them.  Python's None is the empty tuple.              *)
(***************************************************************************)
EXTENDS Integers, Sequences, FiniteSets, TLC

VARIABLES
    store,         \* the "booking" collection of the document store, in insertion order
    store_up,      \* whether the document store answers (else its calls raise)
    status_cache,  \* _status_cache: flight_number -> reference to a status dict
    heap,          \* the status dicts, by reference (a dict is shared, not copied)
    now,           \* the wall clock read by datetime.utcnow(), in half seconds
    response,      \* the HTTP response of the request being answered, or Idle
    returned,      \* flight_number -> the record the last status response carried
    pc,            \* per worker thread: its place in flight_status
    tfn,           \* per worker thread: the flight_number of its request
    prev,          \* per worker thread: the local variable prev (a reference or None)
    fresh,         \* per worker thread: prev was built at line 128 (no record found)
    ret            \* per worker thread: the body of its last response

vars == <<store, store_up, status_cache, heap, now, response, returned, pc, tfn, prev, fresh, ret>>

None == <<>>

-----------------------------------------------------------------------------
(* Bounds of the model *)

MaxStore == 52        \* documents the collection grows to (more than the limit of 50)
MaxSmallStore == 2    \* the same in the runs that are not about listing, and the
                      \* documents at the head of the collection that vary in shape
MaxClock == 1         \* clock ticks
MaxThreads == 2       \* worker threads serving status requests concurrently

(* Constants of the program *)

BookingsLimit == 50   \* get_documents("booking", {}, limit=50)
OffersPerSearch == 6  \* for _ in range(6)

-----------------------------------------------------------------------------
(* Text *)

LowerCase == <<"a","b","c","d","e","f","g","h","i","j","k","l","m",
               "n","o","p","q","r","s","t","u","v","w","x","y","z">>
UpperCase == <<"A","B","C","D","E","F","G","H","I","J","K","L","M",
               "N","O","P","Q","R","S","T","U","V","W","X","Y","Z">>
DigitChars == <<"0","1","2","3","4","5","6","7","8","9">>

UpperChar(c) ==
    IF \E i \in 1..26 : LowerCase[i] = c
    THEN UpperCase[CHOOSE i \in 1..26 : LowerCase[i] = c]
    ELSE c

\* str.upper()
Upper(s) == [i \in 1..Len(s) |-> UpperChar(s[i])]

IsDigit(c) == \E i \in 1..10 : DigitChars[i] = c
DigitVal(c) == (CHOOSE i \in 1..10 : DigitChars[i] = c) - 1

RECURSIVE NumVal(_)
NumVal(s) == IF s = <<>> THEN 0
             ELSE 10 * NumVal(SubSeq(s, 1, Len(s) - 1)) + DigitVal(s[Len(s)])

AllDigits(s) == \A i \in 1..Len(s) : IsDigit(s[i])

RECURSIVE Pow10(_)
Pow10(k) == IF k = 0 THEN 1 ELSE 10 * Pow10(k - 1)

\* n written with w digits, zero padded ("%0wd")
Pad(n, w) == [i \in 1..w |-> DigitChars[((n \div Pow10(w - i)) % 10) + 1]]

\* lexicographic order of two texts made of digits and punctuation (str <=)
CharRank(c) == IF IsDigit(c) THEN 10 + DigitVal(c)
               ELSE IF c = "-" THEN 1 ELSE IF c = "." THEN 2 ELSE IF c = ":" THEN 20
               ELSE 30
RECURSIVE TextLeq(_, _)
TextLeq(a, b) ==
    IF a = <<>> THEN TRUE
    ELSE IF b = <<>> THEN FALSE
    ELSE IF a[1] = b[1] THEN TextLeq(Tail(a), Tail(b))
    ELSE CharRank(a[1]) < CharRank(b[1])

-----------------------------------------------------------------------------
(* datetime: date, datetime, timedelta, fromisoformat, isoformat *)

IsLeap(y) == (y % 4 = 0 /\ y % 100 # 0) \/ y % 400 = 0
DaysInMonth(y, m) ==
    IF m = 2 THEN (IF IsLeap(y) THEN 29 ELSE 28)
    ELSE IF m \in {4, 6, 9, 11} THEN 30 ELSE 31

ValidDate(y, m, d) ==
    /\ y \in 1..9999
    /\ m \in 1..12
    /\ d \in 1..DaysInMonth(y, m)

Raise(kind) == [ok |-> FALSE, error |-> kind]
Value(v) == [ok |-> TRUE, val |-> v]

\* "YYYY-MM-DD" -> a date, or ValueError
ParseDate(s) ==
    IF /\ Len(s) = 10
       /\ s[5] = "-" /\ s[8] = "-"
       /\ AllDigits(SubSeq(s, 1, 4)) /\ AllDigits(SubSeq(s, 6, 7))
       /\ AllDigits(SubSeq(s, 9, 10))
       /\ ValidDate(NumVal(SubSeq(s, 1, 4)), NumVal(SubSeq(s, 6, 7)),
                    NumVal(SubSeq(s, 9, 10)))
    THEN Value([y |-> NumVal(SubSeq(s, 1, 4)), m |-> NumVal(SubSeq(s, 6, 7)),
                d |-> NumVal(SubSeq(s, 9, 10))])
    ELSE Raise("ValueError")

\* "HH:MM:SS" -> minutes and seconds of the day, or ValueError
ParseTime(s) ==
    IF /\ Len(s) = 8
       /\ s[3] = ":" /\ s[6] = ":"
       /\ AllDigits(SubSeq(s, 1, 2)) /\ AllDigits(SubSeq(s, 4, 5))
       /\ AllDigits(SubSeq(s, 7, 8))
       /\ NumVal(SubSeq(s, 1, 2)) \in 0..23
       /\ NumVal(SubSeq(s, 4, 5)) \in 0..59
       /\ NumVal(SubSeq(s, 7, 8)) \in 0..59
    THEN Value([hh |-> NumVal(SubSeq(s, 1, 2)), mi |-> NumVal(SubSeq(s, 4, 5)),
                ss |-> NumVal(SubSeq(s, 7, 8))])
    ELSE Raise("ValueError")

\* datetime.combine(date, time)
Combine(date, hh, mi, ss, us) ==
    [y |-> date.y, m |-> date.m, d |-> date.d, hh |-> hh, mi |-> mi, ss |-> ss, us |-> us]

\* datetime.fromisoformat: "YYYY-MM-DD" or "YYYY-MM-DD?HH:MM:SS" (the forms every
\* Python 3 accepts), anything else is a ValueError
FromIsoFormat(s) ==
    IF Len(s) = 10
    THEN (IF ParseDate(s).ok THEN Value(Combine(ParseDate(s).val, 0, 0, 0, 0))
          ELSE Raise("ValueError"))
    ELSE IF Len(s) = 19 /\ ParseDate(SubSeq(s, 1, 10)).ok /\ ParseTime(SubSeq(s, 12, 19)).ok
    THEN Value(Combine(ParseDate(SubSeq(s, 1, 10)).val,
                       ParseTime(SubSeq(s, 12, 19)).val.hh,
                       ParseTime(SubSeq(s, 12, 19)).val.mi,
                       ParseTime(SubSeq(s, 12, 19)).val.ss, 0))
    ELSE Raise("ValueError")

\* datetime.date()
DateOf(dt) == [y |-> dt.y, m |-> dt.m, d |-> dt.d]

\* date.isoformat()
DateIso(date) == Pad(date.y, 4) \o <<"-">> \o Pad(date.m, 2) \o <<"-">> \o Pad(date.d, 2)

\* datetime.isoformat(): the microseconds are written only when they are not zero
DateTimeIso(dt) ==
    DateIso(DateOf(dt)) \o <<"T">> \o Pad(dt.hh, 2) \o <<":">> \o Pad(dt.mi, 2)
        \o <<":">> \o Pad(dt.ss, 2)
        \o (IF dt.us = 0 THEN <<>> ELSE <<".">> \o Pad(dt.us \div 1000, 3) \o Pad(dt.us % 1000, 3))

\* the day after a date; past 9999-12-31 there is none (OverflowError)
NextDay(date) ==
    IF date.d < DaysInMonth(date.y, date.m) THEN Value([date EXCEPT !.d = date.d + 1])
    ELSE IF date.m < 12 THEN Value([date EXCEPT !.m = date.m + 1, !.d = 1])
    ELSE IF date.y < 9999 THEN Value([y |-> date.y + 1, m |-> 1, d |-> 1])
    ELSE Raise("OverflowError")

RECURSIVE AddDays(_, _)
AddDays(date, k) ==
    IF k = 0 THEN Value(date)
    ELSE IF NextDay(date).ok THEN AddDays(NextDay(date).val, k - 1)
    ELSE Raise("OverflowError")

\* datetime + timedelta(minutes=n), n >= 0
AddMinutes(dt, n) ==
    LET total == dt.hh * 60 + dt.mi + n
        day == AddDays(DateOf(dt), total \div 1440)
    IN  IF day.ok
        THEN Value(Combine(day.val, (total % 1440) \div 60, total % 60, dt.ss, dt.us))
        ELSE Raise("OverflowError")

\* datetime < datetime
DateTimeLess(a, b) ==
    LET ka == <<a.y, a.m, a.d, a.hh, a.mi, a.ss, a.us>>
        kb == <<b.y, b.m, b.d, b.hh, b.mi, b.ss, b.us>>
    IN  \E i \in 1..7 : ka[i] < kb[i] /\ \A j \in 1..(i - 1) : ka[j] = kb[j]

-----------------------------------------------------------------------------
(* schemas.py: Booking.  A pydantic model is populated by each field's alias   *)
(* when it has one (populate_by_name is not set), a keyword that names no      *)
(* field is ignored, and a required field whose key is absent is an error.     *)

AtPositions(s) == {i \in 1..Len(s) : s[i] = "@"}

\* EmailStr: one "@", a local part, and a domain with a dot inside it
EmailValid(s) ==
    /\ Cardinality(AtPositions(s)) = 1
    /\ LET at == CHOOSE i \in AtPositions(s) : TRUE
       IN  /\ at > 1
           /\ at + 1 < Len(s)
           /\ s[at + 1] # "." /\ s[Len(s)] # "."
           /\ \E j \in (at + 2)..(Len(s) - 1) : s[j] = "."
    /\ \A i \in 1..Len(s) : s[i] # " "

Missing(kw, key) == IF key \in DOMAIN kw THEN {} ELSE {<<key, "missing">>}

\* the key travel_date is populated from: its alias
TravelDateKey == "date"

BookingErrors(kw) ==
    Missing(kw, "customer_name")
    \cup Missing(kw, "customer_email")
    \cup (IF "customer_email" \in DOMAIN kw
          THEN (IF EmailValid(kw.customer_email) THEN {}
                ELSE {<<"customer_email", "value_error">>})
          ELSE {})
    \cup (IF "passengers" \in DOMAIN kw
          THEN (IF kw.passengers < 1 THEN {<<"passengers", "greater_than_equal">>}
                ELSE IF kw.passengers > 9 THEN {<<"passengers", "less_than_equal">>}
                ELSE {})
          ELSE {})
    \cup Missing(kw, "origin")
    \cup (IF "origin" \in DOMAIN kw
          THEN (IF Len(kw.origin) < 3 THEN {<<"origin", "string_too_short">>}
                ELSE IF Len(kw.origin) > 4 THEN {<<"origin", "string_too_long">>}
                ELSE {})
          ELSE {})
    \cup Missing(kw, "destination")
    \cup (IF "destination" \in DOMAIN kw
          THEN (IF Len(kw.destination) < 3 THEN {<<"destination", "string_too_short">>}
                ELSE IF Len(kw.destination) > 4 THEN {<<"destination", "string_too_long">>}
                ELSE {})
          ELSE {})
    \cup Missing(kw, TravelDateKey)
    \cup Missing(kw, "flight_number")
    \cup Missing(kw, "airline")
    \cup Missing(kw, "price_total")
    \cup (IF "price_total" \in DOMAIN kw
          THEN (IF kw.price_total < 0 THEN {<<"price_total", "greater_than_equal">>}
                ELSE {})
          ELSE {})

\* Booking(**kw): the validated model, or ValidationError with its errors
Booking(kw) ==
    IF BookingErrors(kw) # {}
    THEN [ok |-> FALSE, error |-> "ValidationError", detail |-> BookingErrors(kw)]
    ELSE Value([customer_name |-> kw.customer_name,
                customer_email |-> kw.customer_email,
                passengers |-> IF "passengers" \in DOMAIN kw THEN kw.passengers ELSE 1,
                origin |-> kw.origin,
                destination |-> kw.destination,
                travel_date |-> kw[TravelDateKey],
                flight_number |-> kw.flight_number,
                airline |-> kw.airline,
                price_total |-> kw.price_total,
                segments |-> IF "segments" \in DOMAIN kw THEN kw.segments ELSE None])

-----------------------------------------------------------------------------
(* The document store gateway (module database, not part of the sources):   *)
(* create_document(collection, record) -> id and                            *)
(* get_documents(collection, filter, limit) -> at most limit records.       *)
(* A value the store holds in a native type carries that type's name.       *)

Native(type, v) == [type |-> type, v |-> v]
Str(v) == [type |-> "str", v |-> v]

\* str(ObjectId)
ObjectIdStr(n) == <<"i", "d">> \o Pad(n, 4)

CreateDocument(st, record, fails) ==
    IF fails THEN [ok |-> FALSE, error |-> "StorageError", store |-> st]
    ELSE [ok |-> TRUE,
          val |-> ObjectIdStr(Len(st) + 1),
          store |-> Append(st, [_id |-> Native("ObjectId", Len(st) + 1),
                                customer_name |-> record.customer_name,
                                customer_email |-> record.customer_email,
                                passengers |-> record.passengers,
                                origin |-> record.origin,
                                destination |-> record.destination,
                                travel_date |-> Native("date", record.travel_date),
                                flight_number |-> record.flight_number,
                                airline |-> record.airline,
                                price_total |-> record.price_total,
                                segments |-> record.segments])]

GetDocuments(st, limit, fails) ==
    IF fails THEN Raise("StorageError")
    ELSE Value(SubSeq(st, 1, IF Len(st) < limit THEN Len(st) ELSE limit))

-----------------------------------------------------------------------------
(* Responses.  A handler answers the request in one step; the response is    *)
(* then delivered and the service is idle again.                             *)

Idle == [req |-> [op |-> "none"], code |-> 0, body |-> <<>>]

Respond(req, code, body) == [req |-> req, code |-> code, body |-> body]

\* raise HTTPException(status_code=400, detail=str(e))
HTTP400(req, e) == Respond(req, 400, [detail |-> e])

-----------------------------------------------------------------------------
(* main.py: create_booking *)

BookingKwargs(payload, date) ==
    [customer_name |-> payload.customer_name,
     customer_email |-> payload.customer_email,
     passengers |-> payload.passengers,
     origin |-> payload.origin,
     destination |-> payload.destination,
     travel_date |-> date,
     flight_number |-> payload.flight_number,
     airline |-> payload.airline,
     price_total |-> payload.price_total,
     segments |-> payload.segments]

\* create_booking with the document written before the model is validated
create_booking_WriteFirst(st, payload, storeFails) ==
    LET parsed == FromIsoFormat(payload.date)
        made == CreateDocument(st, BookingKwargs(payload, None), storeFails)
    IN  IF ~parsed.ok
        THEN [store |-> made.store, response |-> HTTP400(payload, <<parsed.error>>)]
        ELSE LET booking == Booking(BookingKwargs(payload, DateOf(parsed.val)))
             IN  IF ~booking.ok
                 THEN [store |-> made.store,
                       response |-> HTTP400(payload, <<booking.error, booking.detail>>)]
                 ELSE [store |-> made.store,
                       response |-> Respond(payload, 200,
                                            [ok |-> TRUE, booking_id |-> made.val])]

\* the response and the store after POST /api/book
create_booking(st, payload, storeFails) ==
    LET parsed == FromIsoFormat(payload.date)
    IN  IF ~parsed.ok
        THEN [store |-> st, response |-> HTTP400(payload, <<parsed.error>>)]
        ELSE LET booking == Booking(BookingKwargs(payload, DateOf(parsed.val)))
             IN  IF ~booking.ok
                 THEN [store |-> st,
                       response |-> HTTP400(payload, <<booking.error, booking.detail>>)]
                 ELSE LET made == CreateDocument(st, booking.val, storeFails)
                      IN  IF ~made.ok
                          THEN [store |-> made.store,
                                response |-> HTTP400(payload, <<made.error>>)]
                          ELSE [store |-> made.store,
                                response |-> Respond(payload, 200,
                                                     [ok |-> TRUE, booking_id |-> made.val])]

-----------------------------------------------------------------------------
(* main.py: list_bookings *)

\* hasattr(v, "isoformat")
HasIsoFormat(v) == v.type \in {"date", "datetime"}

IsoFormatOf(v) == IF v.type = "date" THEN Str(DateIso(v.v)) ELSE Str(DateTimeIso(v.v))

NormaliseSegment(s) ==
    [s EXCEPT !.departure_time = IF HasIsoFormat(@) THEN IsoFormatOf(@) ELSE @,
              !.arrival_time = IF HasIsoFormat(@) THEN IsoFormatOf(@) ELSE @]

NormaliseDoc(d) ==
    [d EXCEPT !._id = Str(ObjectIdStr(@.v)),
              !.travel_date = IF HasIsoFormat(@) THEN IsoFormatOf(@) ELSE @,
              !.segments = [i \in 1..Len(@) |-> NormaliseSegment(@[i])]]

\* the fetch without its limit
ListBookingsFetch_NoLimit(st, storeFails) == GetDocuments(st, Len(st), storeFails)

\* docs = get_documents("booking", {}, limit=50)
ListBookingsFetch(st, storeFails) == GetDocuments(st, BookingsLimit, storeFails)

\* list_bookings with the store's failure swallowed
list_bookings_Swallow(st, storeFails) ==
    LET docs == ListBookingsFetch(st, storeFails)
    IN  Respond([op |-> "list"], 200,
                [results |-> IF docs.ok
                             THEN [i \in 1..Len(docs.val) |-> NormaliseDoc(docs.val[i])]
                             ELSE <<>>])

list_bookings(st, storeFails) ==
    LET req == [op |-> "list"]
        docs == ListBookingsFetch(st, storeFails)
    IN  IF ~docs.ok
        THEN HTTP400(req, <<docs.error>>)
        ELSE Respond(req, 200,
                     [results |-> [i \in 1..Len(docs.val) |-> NormaliseDoc(docs.val[i])]])

-----------------------------------------------------------------------------
(* random: randint(a, b) returns any integer of a..b, choice(seq) any element *)

RandInt(a, b) == a..b
Choice(seq) == {seq[i] : i \in 1..Len(seq)}

RECURSIVE Decimal(_)
\* str(n), n >= 0
Decimal(n) == IF n < 10 THEN <<DigitChars[n + 1]>>
              ELSE Decimal(n \div 10) \o <<DigitChars[(n % 10) + 1]>>

AIRLINES == <<[code |-> "UA", name |-> "United"],
              [code |-> "AA", name |-> "American"],
              [code |-> "DL", name |-> "Delta"],
              [code |-> "WN", name |-> "Southwest"],
              [code |-> "AS", name |-> "Alaska"],
              [code |-> "B6", name |-> "JetBlue"]>>

STATUSES == <<"On Time", "Boarding", "Delayed", "Departed", "Arrived">>

\* f"{airline_code}{randint(10, 9999)}"
make_flight_number(airline_code, number) == <<airline_code>> \o Decimal(number)

-----------------------------------------------------------------------------
(* schemas.py: FlightSearchRequest, validated from the request body *)

FlightSearchErrors(body) ==
    Missing(body, "origin")
    \cup (IF "origin" \in DOMAIN body
          THEN (IF Len(body.origin) < 3 THEN {<<"origin", "string_too_short">>}
                ELSE IF Len(body.origin) > 4 THEN {<<"origin", "string_too_long">>}
                ELSE {})
          ELSE {})
    \cup Missing(body, "destination")
    \cup (IF "destination" \in DOMAIN body
          THEN (IF Len(body.destination) < 3 THEN {<<"destination", "string_too_short">>}
                ELSE IF Len(body.destination) > 4 THEN {<<"destination", "string_too_long">>}
                ELSE {})
          ELSE {})
    \cup Missing(body, "date")
    \cup (IF "date" \in DOMAIN body
          THEN (IF ParseDate(body.date).ok THEN {} ELSE {<<"date", "date_from_datetime_parsing">>})
          ELSE {})
    \cup (IF "passengers" \in DOMAIN body
          THEN (IF body.passengers < 1 THEN {<<"passengers", "greater_than_equal">>}
                ELSE IF body.passengers > 9 THEN {<<"passengers", "less_than_equal">>}
                ELSE {})
          ELSE {})

FlightSearchRequest(body) ==
    IF FlightSearchErrors(body) # {}
    THEN [ok |-> FALSE, error |-> "RequestValidationError", detail |-> FlightSearchErrors(body)]
    ELSE Value([origin |-> body.origin,
                destination |-> body.destination,
                travel_date |-> ParseDate(body.date).val,
                passengers |-> IF "passengers" \in DOMAIN body THEN body.passengers ELSE 1])

-----------------------------------------------------------------------------
(* main.py: search_flights.  One pass of the loop draws an airline, the hours *)
(* and minutes of the departure, a duration, a status, a fare and the number  *)
(* of the flight.                                                             *)

OfferDrawSpace(d) ==
    /\ d.airline \in Choice(AIRLINES)
    /\ d.hours \in RandInt(6, 20)
    /\ d.minutes \in Choice(<<0, 15, 30, 45>>)
    /\ d.duration \in RandInt(120, 360)
    /\ d.status \in Choice(STATUSES)
    /\ d.fare \in RandInt(120, 799)
    /\ d.number \in RandInt(10, 9999)

\* the price of an offer
OfferPrice(fare, passengers) == fare * passengers

\* one pass of the loop: the offer appended to results, or the exception raised
MakeOffer(payload, d) ==
    LET depart_dt == AddMinutes(Combine(payload.travel_date, 0, 0, 0, 0),
                                d.hours * 60 + d.minutes)
        arrive_dt == IF depart_dt.ok THEN AddMinutes(depart_dt.val, d.duration)
                     ELSE depart_dt
    IN  IF ~arrive_dt.ok THEN arrive_dt
        ELSE Value([segments |->
                       <<[flight_number |-> make_flight_number(d.airline.code, d.number),
                          airline |-> d.airline.name,
                          origin |-> Upper(payload.origin),
                          destination |-> Upper(payload.destination),
                          departure_time |-> DateTimeIso(depart_dt.val),
                          arrival_time |-> DateTimeIso(arrive_dt.val),
                          duration_minutes |-> d.duration,
                          status |-> d.status]>>,
                    price_total |-> OfferPrice(d.fare, payload.passengers),
                    airline |-> d.airline.name])

\* the response to POST /api/search; draws[i] are the draws of pass i
search_flights(body, draws) ==
    LET req == [op |-> "search", body |-> body]
        payload == FlightSearchRequest(body)
    IN  IF ~payload.ok THEN Respond(req, 422, [detail |-> payload.detail])
        ELSE IF \E i \in 1..OffersPerSearch : ~MakeOffer(payload.val, draws[i]).ok
        THEN Respond(req, 500, [detail |-> <<"Internal Server Error">>])
        ELSE Respond(req, 200,
                     [results |-> [i \in 1..OffersPerSearch |->
                                      MakeOffer(payload.val, draws[i]).val]])

-----------------------------------------------------------------------------
(* main.py: flight_status.  _status_cache maps a flight_number to a dict;    *)
(* the dict found in the cache is changed in place.  A dict of the heap is   *)
(* [ref, status, gate, updated_at], ref = <<flight_number, k>>.              *)

\* datetime.utcnow() at clock tick t
UtcNow(t) == Combine([y |-> 2025, m |-> 6, d |-> 1], 12, 0, t \div 2, (t % 2) * 500000)

StatusDrawSpace(d) ==
    /\ d.status \in Choice(STATUSES)
    /\ d.letter \in Choice(<<"A", "B", "C", "D">>)
    /\ d.number \in RandInt(1, 30)

\* the gate numbered from 0
MakeGate_FromZero(d) == <<d.letter>> \o Decimal(d.number - 1)

\* f"{choice(['A','B','C','D'])}{randint(1,30)}"
MakeGate(d) == <<d.letter>> \o Decimal(d.number)

Deref(hp, ref) == CHOOSE o \in hp : o.ref = ref

\* what a response carries of a dict
Body(o) == [status |-> o.status, gate |-> o.gate, updated_at |-> o.updated_at]

\* a lookup that finds nothing
CacheGet_Miss(cache, f) == None

\* _status_cache.get(flight_number)
CacheGet(cache, f) == cache[f]

\* the record written under every key
CachePut_AllKeys(cache, f, ref) == [g \in DOMAIN cache |-> ref]

\* _status_cache[flight_number] = prev
CachePut(cache, f, ref) == [cache EXCEPT ![f] = ref]

\* a reference no dict of the heap has
NewRef(hp, f) == <<f, Cardinality({o \in hp : o.ref[1] = f}) + 1>>

\* line 128: a new dict
NewStatus(ref, d, t) ==
    [ref |-> ref, status |-> d.status, gate |-> MakeGate(d),
     updated_at |-> DateTimeIso(UtcNow(t))]

\* the time stamp left as it was
SetUpdatedAt_Stale(hp, ref, t) == hp

\* lines 132-134, each an assignment to a key of the dict prev refers to
SetStatus(hp, ref, d) ==
    (hp \ {Deref(hp, ref)}) \cup {[Deref(hp, ref) EXCEPT !.status = d.status]}
SetGate(hp, ref, d) ==
    (hp \ {Deref(hp, ref)}) \cup {[Deref(hp, ref) EXCEPT !.gate = MakeGate(d)]}
SetUpdatedAt(hp, ref, t) ==
    (hp \ {Deref(hp, ref)}) \cup {[Deref(hp, ref) EXCEPT !.updated_at = DateTimeIso(UtcNow(t))]}

\* line 131: the record changes when randint(0, 3) == 0
Changes(roll) == roll = 0

\* the whole handler, run without interruption: the heap, the cache and the body after it
flight_status(hp, cache, f, roll, d, t) ==
    LET found == CacheGet(cache, f)
        ref == IF found = None THEN NewRef(hp, f) ELSE found
        hp1 == IF found = None THEN hp \cup {NewStatus(ref, d, t)}
               ELSE IF Changes(roll)
               THEN SetUpdatedAt(SetGate(SetStatus(hp, ref, d), ref, d), ref, t)
               ELSE hp
    IN  [heap |-> hp1, cache |-> CachePut(cache, f, ref), body |-> Body(Deref(hp1, ref))]

-----------------------------------------------------------------------------
(* The requests the model sends *)

BaseBooking ==
    [op |-> "book",
     customer_name |-> "A Lee",
     customer_email |-> <<"a","@","x",".","c","o","m">>,
     passengers |-> 2,
     origin |-> <<"S","F","O">>,
     destination |-> <<"J","F","K">>,
     date |-> <<"2","0","2","5","-","0","6","-","0","1">>,
     flight_number |-> "UA123",
     airline |-> "United",
     price_total |-> 500,
     segments |-> None]

BaseSegment ==
    [flight_number |-> "UA123", airline |-> "United",
     origin |-> <<"S","F","O">>, destination |-> <<"J","F","K">>,
     departure_time |-> Str(<<"2","0","2","5","-","0","6","-","0","1","T","0","8",":","0","0",":","0","0">>),
     arrival_time |-> Str(<<"2","0","2","5","-","0","6","-","0","1","T","1","1",":","3","0",":","0","0">>),
     duration_minutes |-> 210, status |-> "On Time"]

BookRequests ==
    {BaseBooking}
    \cup {[BaseBooking EXCEPT !.customer_email = e] :
            e \in {<<"n","o","t","-","a","n","-","e","m","a","i","l">>, <<"a","@","x">>}}
    \cup {[BaseBooking EXCEPT !.passengers = n] : n \in {0, 1, 9, 10}}
    \cup {[BaseBooking EXCEPT !.origin = o] :
            o \in {<<"s","f","o">>, <<"S","F">>, <<"K","S","F","O">>, <<"K","S","F","O","X">>}}
    \cup {[BaseBooking EXCEPT !.destination = o] : o \in {<<"j","f","k">>, <<"J","F">>}}
    \cup {[BaseBooking EXCEPT !.price_total = p] : p \in {-1, 0}}
    \cup {[BaseBooking EXCEPT !.date = s] :
            s \in {<<"2","0","2","5","-","1","3","-","0","1">>,
                   <<"J","u","n","e"," ","1">>,
                   <<"2","0","2","4","-","0","2","-","2","9">>}}
    \cup {[BaseBooking EXCEPT !.segments = <<BaseSegment>>]}

BaseSearch ==
    [origin |-> <<"s","f","o">>,
     destination |-> <<"J","F","K">>,
     date |-> <<"2","0","2","5","-","0","6","-","0","1">>,
     passengers |-> 2]

SearchBodies ==
    {BaseSearch}
    \cup {[BaseSearch EXCEPT !.date = s] :
            s \in {<<"2","0","2","4","-","0","2","-","2","9">>,
                   <<"9","9","9","9","-","1","2","-","3","1">>,
                   <<"2","0","2","5","-","1","3","-","0","1">>}}
    \cup {[BaseSearch EXCEPT !.origin = o] : o \in {<<"S","F">>, <<"k","s","f","o">>}}
    \cup {[BaseSearch EXCEPT !.destination = o] : o \in {<<"J","F","K","X","X">>}}
    \cup {[BaseSearch EXCEPT !.passengers = n] : n \in {0, 1, 9, 10}}

\* the draws of one pass of the search loop the model takes
OfferDraws ==
    {d \in {[airline |-> AIRLINES[1], hours |-> 6, minutes |-> 0, duration |-> 120,
             status |-> "On Time", fare |-> 120, number |-> 10],
            [airline |-> AIRLINES[6], hours |-> 20, minutes |-> 45, duration |-> 360,
             status |-> "Arrived", fare |-> 799, number |-> 9999],
            [airline |-> AIRLINES[3], hours |-> 18, minutes |-> 0, duration |-> 360,
             status |-> "Delayed", fare |-> 450, number |-> 123],
            [airline |-> AIRLINES[4], hours |-> 20, minutes |-> 45, duration |-> 194,
             status |-> "Boarding", fare |-> 300, number |-> 77]} : OfferDrawSpace(d)}

\* one of them, for the runs that are not about search
OneOfferDraw == {d \in OfferDraws : d.hours = 6}

FlightNumbers == {"UA123", "DL45"}

\* the draws of a status record the model takes
StatusDraws ==
    {d \in {[status |-> "On Time", letter |-> "A", number |-> 1],
            [status |-> "Arrived", letter |-> "D", number |-> 30],
            [status |-> "Delayed", letter |-> "B", number |-> 7]} : StatusDrawSpace(d)}

\* documents other writers put into the collection: one the way the service
\* stores a booking, one with a text date, lower-case codes and a segment
RegularBooking ==
    [customer_name |-> "A Lee",
     customer_email |-> <<"a","@","x",".","c","o","m">>,
     passengers |-> 2,
     origin |-> <<"S","F","O">>,
     destination |-> <<"J","F","K">>,
     travel_date |-> [y |-> 2025, m |-> 6, d |-> 1],
     flight_number |-> "UA123",
     airline |-> "United",
     price_total |-> 500,
     segments |-> None]

RegularDoc == CreateDocument(<<>>, RegularBooking, FALSE).store[1]

OddDoc ==
    [RegularDoc EXCEPT
        !.origin = <<"s","f","o">>,
        !.travel_date = Str(<<"2","0","2","5","-","0","6","-","0","1">>),
        !.segments = <<[BaseSegment EXCEPT !.departure_time =
                           Native("datetime", Combine([y |-> 2025, m |-> 6, d |-> 1], 8, 0, 0, 0))]>>]

ExternalDocs == {RegularDoc, OddDoc}

IsOdd(doc) == doc.travel_date.type = "str"

Threads == 1..MaxThreads

-----------------------------------------------------------------------------
(* The state machine *)

Unseen == [seen |-> FALSE]
Seen(body) == [seen |-> TRUE, body |-> body]

Init ==
    /\ store = <<>>
    /\ store_up = TRUE
    /\ status_cache = [f \in FlightNumbers |-> None]
    /\ heap = {}
    /\ now = 0
    /\ response = Idle
    /\ returned = [f \in FlightNumbers |-> Unseen]
    /\ pc = [t \in Threads |-> "idle"]
    /\ tfn = [t \in Threads |-> ""]
    /\ prev = [t \in Threads |-> None]
    /\ fresh = [t \in Threads |-> FALSE]
    /\ ret = [t \in Threads |-> Unseen]

threadVars == <<pc, tfn, prev, fresh, ret>>

IsIdle == response.code = 0

\* POST /api/book
Book ==
    /\ IsIdle
    /\ \E payload \in BookRequests :
          LET r == create_booking(store, payload, ~store_up)
          IN  /\ store' = r.store
              /\ response' = r.response
    /\ UNCHANGED <<store_up, status_cache, heap, now, returned, threadVars>>

\* GET /api/bookings
ListBookings ==
    /\ IsIdle
    /\ response' = list_bookings(store, ~store_up)
    /\ UNCHANGED <<store, store_up, status_cache, heap, now, returned, threadVars>>

\* POST /api/search
Search(bodies, drawSet) ==
    /\ IsIdle
    /\ \E body \in bodies, draws \in [1..OffersPerSearch -> drawSet] :
          response' = search_flights(body, draws)
    /\ UNCHANGED <<store, store_up, status_cache, heap, now, returned, threadVars>>

\* GET /api/status/{flight_number}, served without interruption
Status ==
    /\ IsIdle
    /\ \E f \in FlightNumbers, roll \in RandInt(0, 3), d \in StatusDraws :
          LET r == flight_status(heap, status_cache, f, roll, d, now)
          IN  /\ heap' = r.heap
              /\ status_cache' = r.cache
              /\ response' = Respond([op |-> "status", flight_number |-> f], 200, r.body)
              /\ returned' = [returned EXCEPT ![f] = Seen(r.body)]
    /\ UNCHANGED <<store, store_up, now, threadVars>>

\* the response reaches the client
Deliver ==
    /\ ~IsIdle
    /\ response' = Idle
    /\ UNCHANGED <<store, store_up, status_cache, heap, now, returned, threadVars>>

\* time passes
Tick ==
    /\ IsIdle
    /\ now < MaxClock
    /\ now' = now + 1
    /\ UNCHANGED <<store, store_up, status_cache, heap, response, returned, threadVars>>

\* another writer of the collection inserts a document
ExternalInsert(max) ==
    /\ IsIdle
    /\ store_up
    /\ Len(store) < max
    /\ \E doc \in ExternalDocs :
          /\ IsOdd(doc) => Len(store) < MaxSmallStore
          /\ store' = Append(store, [doc EXCEPT !._id = Native("ObjectId", Len(store) + 1)])
    /\ UNCHANGED <<store_up, status_cache, heap, now, response, returned, threadVars>>

\* the document store goes down, or comes back
StoreOutage ==
    /\ IsIdle
    /\ store_up' = ~store_up
    /\ UNCHANGED <<store, status_cache, heap, now, response, returned, threadVars>>

Next ==
    \/ Book
    \/ ListBookings
    \/ Search(SearchBodies, OneOfferDraw)
    \/ Status
    \/ Deliver
    \/ Tick
    \/ ExternalInsert(MaxSmallStore)
    \/ StoreOutage

\* every handler, each request served on its own
Spec == Init /\ [][Next]_vars

NextSearch ==
    \/ Search(SearchBodies, OfferDraws)
    \/ Deliver

\* search, over all the draws of the model
SpecSearch == Init /\ [][NextSearch]_vars

NextList ==
    \/ ListBookings
    \/ Deliver
    \/ ExternalInsert(MaxStore)
    \/ StoreOutage

\* listing over a collection that grows past the limit
SpecList == Init /\ [][NextList]_vars

-----------------------------------------------------------------------------
(* flight_status served by worker threads (a def endpoint runs in the thread *)
(* pool): the statements of several requests interleave, one statement that  *)
(* reads or writes shared state at a time.                                   *)

\* the flight numbers the concurrent requests ask for
ConcFlights == {"UA123"}

\* the draws of a status record the concurrent requests take
ConcDraws == {d \in StatusDraws : d.number # 7}

otherVars == <<store, store_up, response>>

\* a request arrives and is given to thread t
Start(t) ==
    /\ pc[t] = "idle"
    /\ \E f \in ConcFlights : tfn' = [tfn EXCEPT ![t] = f]
    /\ pc' = [pc EXCEPT ![t] = "read"]
    /\ UNCHANGED <<status_cache, heap, now, returned, prev, fresh, ret, otherVars>>

\* line 126: prev = _status_cache.get(flight_number)
Read(t) ==
    /\ pc[t] = "read"
    /\ prev' = [prev EXCEPT ![t] = CacheGet(status_cache, tfn[t])]
    /\ pc' = [pc EXCEPT ![t] = "branch"]
    /\ UNCHANGED <<status_cache, heap, now, returned, tfn, fresh, ret, otherVars>>

\* lines 127-128: no record was found, a new dict is built
Create(t) ==
    /\ pc[t] = "branch"
    /\ prev[t] = None
    /\ \E d \in ConcDraws :
          /\ heap' = heap \cup {NewStatus(NewRef(heap, tfn[t]), d, now)}
          /\ prev' = [prev EXCEPT ![t] = NewRef(heap, tfn[t])]
    /\ fresh' = [fresh EXCEPT ![t] = TRUE]
    /\ pc' = [pc EXCEPT ![t] = "write"]
    /\ UNCHANGED <<status_cache, now, returned, tfn, ret, otherVars>>

\* lines 129-131: a record was found, randint(0, 3) decides whether it changes
Roll(t) ==
    /\ pc[t] = "branch"
    /\ prev[t] # None
    /\ \E roll \in RandInt(0, 3) :
          pc' = [pc EXCEPT ![t] = IF Changes(roll) THEN "set_status" ELSE "write"]
    /\ fresh' = [fresh EXCEPT ![t] = FALSE]
    /\ UNCHANGED <<status_cache, heap, now, returned, tfn, prev, ret, otherVars>>

\* line 132: prev["status"] = choice(STATUSES)
StepStatus(t) ==
    /\ pc[t] = "set_status"
    /\ \E d \in ConcDraws : heap' = SetStatus(heap, prev[t], d)
    /\ pc' = [pc EXCEPT ![t] = "set_gate"]
    /\ UNCHANGED <<status_cache, now, returned, tfn, prev, fresh, ret, otherVars>>

\* line 133: prev["gate"] = ...
StepGate(t) ==
    /\ pc[t] = "set_gate"
    /\ \E d \in ConcDraws : heap' = SetGate(heap, prev[t], d)
    /\ pc' = [pc EXCEPT ![t] = "set_time"]
    /\ UNCHANGED <<status_cache, now, returned, tfn, prev, fresh, ret, otherVars>>

\* line 134: prev["updated_at"] = datetime.utcnow().isoformat()
StepTime(t) ==
    /\ pc[t] = "set_time"
    /\ heap' = SetUpdatedAt(heap, prev[t], now)
    /\ pc' = [pc EXCEPT ![t] = "write"]
    /\ UNCHANGED <<status_cache, now, returned, tfn, prev, fresh, ret, otherVars>>

\* line 135: _status_cache[flight_number] = prev
Write(t) ==
    /\ pc[t] = "write"
    /\ status_cache' = CachePut(status_cache, tfn[t], prev[t])
    /\ pc' = [pc EXCEPT ![t] = "return"]
    /\ UNCHANGED <<heap, now, returned, tfn, prev, fresh, ret, otherVars>>

\* line 136: return prev; the dict is serialised as it is then, and the
\* locals of the call are gone
Return(t) ==
    /\ pc[t] = "return"
    /\ ret' = [ret EXCEPT ![t] = Seen(Body(Deref(heap, prev[t])))]
    /\ pc' = [pc EXCEPT ![t] = "idle"]
    /\ tfn' = [tfn EXCEPT ![t] = ""]
    /\ prev' = [prev EXCEPT ![t] = None]
    /\ fresh' = [fresh EXCEPT ![t] = FALSE]
    /\ UNCHANGED <<status_cache, heap, now, returned, otherVars>>

ThreadStep(t) ==
    \/ Start(t)
    \/ Read(t)
    \/ Create(t)
    \/ Roll(t)
    \/ StepStatus(t)
    \/ StepGate(t)
    \/ StepTime(t)
    \/ Write(t)
    \/ Return(t)

NextConc ==
    \/ \E t \in Threads : ThreadStep(t)
    \/ Tick

\* status requests served concurrently
SpecConc == Init /\ [][NextConc]_vars

-----------------------------------------------------------------------------
(* The properties checked *)

\* a booking request whose fields are all valid, as the specification lists them
ValidBookingRequest(r) ==
    /\ EmailValid(r.customer_email)
    /\ r.passengers \in 1..9
    /\ Len(r.origin) \in 3..4
    /\ Len(r.destination) \in 3..4
    /\ r.price_total >= 0
    /\ ParseDate(r.date).ok

\* a step that answers a request of kind op
Answers(op) == IsIdle /\ response'.req.op = op

\* the listed record rec is the booking of request r, its date as text
ListedAs(rec, r) ==
    /\ rec.customer_name = r.customer_name
    /\ rec.customer_email = r.customer_email
    /\ rec.passengers = r.passengers
    /\ rec.origin = r.origin
    /\ rec.destination = r.destination
    /\ rec.flight_number = r.flight_number
    /\ rec.airline = r.airline
    /\ rec.price_total = r.price_total
    /\ rec.travel_date = Str(r.date)

\* C1: a booking request whose fields are all valid, made while the store
\* answers, is answered {ok: true, booking_id} with a booking_id that is not
\* empty, and the listing that follows holds its record, travel_date being the
\* requested date as text.
C1_ValidBookingSucceeds ==
    (response.req.op = "book" /\ ValidBookingRequest(response.req) /\ store_up) =>
        /\ response.code = 200
        /\ response.body.ok
        /\ response.body.booking_id # <<>>
        /\ LET listed == list_bookings(store, FALSE).body.results
           IN  \E i \in 1..Len(listed) : ListedAs(listed[i], response.req)

\* C2: a booking request that fails validation is answered 400 and leaves the
\* stored bookings as they were.
C2_InvalidBookingRejected ==
    [][(Answers("book") /\ ~ValidBookingRequest(response'.req)) =>
          (response'.code = 400 /\ store' = store)]_vars

\* an invalid e-mail address was refused while the collection held a booking
C2_Witness ==
    /\ response.req.op = "book"
    /\ ~EmailValid(response.req.customer_email)
    /\ response.code = 400
    /\ Len(store) > 0

C7_StoreFailureIs400 ==
    /\ (response.req.op \in {"book", "list"} /\ ~store_up) => response.code = 400
    /\ (response.req.op = "list" /\ ~store_up) => response.body.detail = <<"StorageError">>
    /\ (response.req.op = "book" /\ response.code = 200) =>
          /\ response.body.ok
          /\ \E i \in 1..Len(store) : ObjectIdStr(store[i]._id.v) = response.body.booking_id

\* a listing was refused because the store was down
C7_Witness ==
    /\ response.req.op = "list"
    /\ ~store_up
    /\ Len(store) > 0
    /\ response.code = 400

\* a search query whose fields are all valid
ValidSearchQuery(b) ==
    /\ Len(b.origin) \in 3..4
    /\ Len(b.destination) \in 3..4
    /\ ParseDate(b.date).ok
    /\ b.passengers \in 1..9

\* offer o answers query b: one segment, arriving duration_minutes after it
\* departs, between the upper-cased codes, at a fare of 120..799 a passenger
OfferAnswers(o, b) ==
    /\ Len(o.segments) = 1
    /\ LET s == o.segments[1]
           dep == FromIsoFormat(s.departure_time)
           arr == FromIsoFormat(s.arrival_time)
       IN  /\ dep.ok /\ arr.ok
           /\ DateTimeLess(dep.val, arr.val)
           /\ s.duration_minutes \in 120..360
           /\ AddMinutes(dep.val, s.duration_minutes) = Value(arr.val)
           /\ s.origin = Upper(b.origin)
           /\ s.destination = Upper(b.destination)
    /\ \E k \in 120..799 : o.price_total = k * b.passengers

\* C3: every valid search query is answered with exactly 6 offers, each of one
\* segment that arrives strictly after it departs (by its duration, 120..360
\* minutes), between the upper-cased codes of the query, priced k * passengers
\* for an integer k of 120..799.
C3_SearchReturnsSixOffers ==
    (response.req.op = "search" /\ ValidSearchQuery(response.req.body)) =>
        /\ response.code = 200
        /\ Len(response.body.results) = 6
        /\ \A i \in 1..6 : OfferAnswers(response.body.results[i], response.req.body)

\* a status record as the specification describes it
StatusOk(status) == status \in {"On Time", "Boarding", "Delayed", "Departed", "Arrived"}
GateOk(g) ==
    /\ Len(g) \in 2..3
    /\ g[1] \in {"A", "B", "C", "D"}
    /\ AllDigits(Tail(g))
    /\ g[2] # "0"
    /\ NumVal(Tail(g)) \in 1..30
RecordOk(r) == StatusOk(r.status) /\ GateOk(r.gate)

\* status, gate and updated_at were all drawn at clock tick t
FreshAt(r, t) == RecordOk(r) /\ r.updated_at = DateTimeIso(UtcNow(t))

\* C4: of the status queries on one flight_number, the first creates and stores
\* a record; every later one returns the record as the query before returned it,
\* or one whose status, gate and updated_at are all new; updated_at never
\* decreases from one answer to the next.
C4_StatusStableOrFresh ==
    [][\A f \in FlightNumbers :
          (Answers("status") /\ response'.req.flight_number = f) =>
              IF ~returned[f].seen
              THEN /\ status_cache[f] = None
                   /\ status_cache'[f] # None
                   /\ Body(Deref(heap', status_cache'[f])) = response'.body
                   /\ FreshAt(response'.body, now)
              ELSE /\ \/ response'.body = returned[f].body
                      \/ FreshAt(response'.body, now)
                   /\ TextLeq(returned[f].body.updated_at, response'.body.updated_at)]_vars

\* a later query returned the record unchanged: its time stamp is older than the clock
C4_Witness ==
    /\ response.req.op = "status"
    /\ now = 1
    /\ response.body.updated_at = DateTimeIso(UtcNow(0))

\* the listed record rec is the stored document doc, identifier and dates as text
StoredAs(rec, doc) ==
    /\ rec._id = Str(ObjectIdStr(doc._id.v))
    /\ rec.customer_name = doc.customer_name
    /\ rec.customer_email = doc.customer_email
    /\ rec.passengers = doc.passengers
    /\ rec.origin = doc.origin
    /\ rec.destination = doc.destination
    /\ rec.flight_number = doc.flight_number
    /\ rec.airline = doc.airline
    /\ rec.price_total = doc.price_total
    /\ rec.travel_date.type = "str"
    /\ IF doc.travel_date.type = "date"
       THEN ParseDate(rec.travel_date.v) = Value(doc.travel_date.v)
       ELSE rec.travel_date = doc.travel_date

\* C6: a listing never holds more than 50 records, however many bookings the
\* store holds, and every record of it is a stored booking.
C6_ListingBounded ==
    (response.req.op = "list" /\ response.code = 200) =>
        /\ Len(response.body.results) <= 50
        /\ \A i \in 1..Len(response.body.results) :
              \E j \in 1..Len(store) : StoredAs(response.body.results[i], store[j])

\* a listing of 50 records out of a collection of more
C6_Witness ==
    /\ response.req.op = "list"
    /\ response.code = 200
    /\ Len(store) > 50
    /\ Len(response.body.results) = 50

\* C8: every record of the status cache and every record a status query
\* returns has a status of the five and a gate made of a letter of A..D and an
\* integer of 1..30; once a status query for a flight_number has returned, the
\* cache holds a record for it.
C8_StatusRecordsWellFormed ==
    /\ \A f \in FlightNumbers :
          /\ status_cache[f] # None => RecordOk(Deref(heap, status_cache[f]))
          /\ returned[f].seen => (status_cache[f] # None /\ RecordOk(returned[f].body))
    /\ response.req.op = "status" =>
          /\ RecordOk(response.body)
          /\ status_cache[response.req.flight_number] # None

\* a status query returned gate D30, and the cache holds its record
C8_Witness ==
    /\ response.req.op = "status"
    /\ response.body.gate = <<"D", "3", "0">>
    /\ Body(Deref(heap, status_cache[response.req.flight_number])) = response.body

\* C10: a status query for a flight_number changes the status record of no
\* other flight_number; search, booking and listing change no status record;
\* a status query or a search writes nothing to the document store.
C10_Frame ==
    [][/\ \A f \in FlightNumbers :
             (Answers("status") /\ response'.req.flight_number = f) =>
                 \A g \in FlightNumbers \ {f} :
                     /\ status_cache'[g] = status_cache[g]
                     /\ status_cache[g] # None =>
                           Deref(heap', status_cache[g]) = Deref(heap, status_cache[g])
       /\ (Answers("search") \/ Answers("book") \/ Answers("list")) =>
             (status_cache' = status_cache /\ heap' = heap)
       /\ (Answers("status") \/ Answers("search")) => store' = store]_vars

\* a status query was answered while the other flight had a record and the
\* collection a booking
C10_Witness ==
    /\ response.req.op = "status"
    /\ \A f \in FlightNumbers : status_cache[f] # None
    /\ Len(store) > 0

\* the steps of thread t, told by its place before and after
CreateStep(t) == pc[t] = "branch" /\ prev[t] = None /\ pc'[t] = "write"
WriteStep(t) == pc[t] = "write" /\ pc'[t] = "return"
ReturnStep(t) == pc[t] = "return" /\ pc'[t] = "idle"

\* the dicts built for flight_number f
RecordsOf(hp, f) == {o \in hp : o.ref[1] = f}

\* C9: with status requests for one flight_number served concurrently no update
\* is lost: the record is created only once, no request overwrites a stored
\* record with one it built on the 'no record exists' branch, and the record a
\* request returns is the one the cache holds when the request completes its
\* write.
C9_NoLostUpdate ==
    [][\A t \in Threads :
          /\ CreateStep(t) => RecordsOf(heap, tfn[t]) = {}
          /\ (WriteStep(t) /\ fresh[t]) => status_cache[tfn[t]] = None
          /\ WriteStep(t) => status_cache'[tfn[t]] = prev[t]
          /\ ReturnStep(t) => ret'[t] = Seen(Body(Deref(heap, prev[t])))]_vars

\* C9 as amended: served concurrently, each request that read the cache before
\* the first write builds a record of its own, so at most one record per
\* concurrent request is created, and a later write replaces the record stored
\* before it; the cache never loses the entry of a flight_number, and the
\* record a request returns is the one the cache holds when the request
\* completes its write.
C9_WriteThenReturnSameRecord ==
    [][/\ \A t \in Threads :
             /\ CreateStep(t) => Cardinality(RecordsOf(heap, tfn[t])) < MaxThreads
             /\ WriteStep(t) => status_cache'[tfn[t]] = prev[t]
             /\ ReturnStep(t) => ret'[t] = Seen(Body(Deref(heap, prev[t])))
       /\ \A f \in FlightNumbers : status_cache[f] # None => status_cache'[f] # None]_vars

\* two requests each built a record, and one is about to return a record the
\* cache no longer holds
C9_Witness ==
    \E t \in Threads :
        /\ pc[t] = "return"
        /\ Cardinality(RecordsOf(heap, tfn[t])) = 2
        /\ status_cache[tfn[t]] # prev[t]

=============================================================================
